---- MODULE Spec2Model ----
(***************************************************************************)
(* The FBX and GLTF2 model loaders of react-vr-web as one state machine.   *)
(*                                                                         *)
(*   src/js/Loaders/GLTF2ModelLoader.js   GLTF2MeshInstance, GLTF2ModelLoader *)
(*   src/unnamed/part_000                 FBXMeshInstance, FBXModelLoader  *)
(*                                                                         *)
(* A mesh instance is a record of the fields its constructor sets.  The    *)
(* asynchronous parts (the loader's success and error callbacks, the       *)
(* requestAnimationFrame callback) are actions of their own; the calls of  *)
(* the exposed interface (createInstance, update, frame, setLit,           *)
(* setTexture, setWireframe, dispose) are one action each.                 *)
(***************************************************************************)
EXTENDS Integers, Sequences, FiniteSets, TLC

\* ------------------------------------------------------------------ bounds

\* Instances the lifecycle specification may create.
MaxInst == 2
\* Instances the animation specification may create.
MaxAnimInst == 1

\* ------------------------------------------------------------------ values

Undefined == "undefined"
Kinds == {"gltf2", "fbx"}
URLs == {"a", "b"}
\* The value of a definition's gltf2 or fbx field.
Res == URLs \cup {Undefined}
\* What `extractURL(x) || ''` can give.
UrlKeys == URLs \cup {""}

\* Keys of a definition's animations object.  parseAnimationParams reads the
\* key play of it; updateAnimation iterates over all of its keys.
AnimKeys == {"play", "walk"}

\* definition.animations: undefined, an empty array, or an object with some
\* of AnimKeys (play holding a boolean, every other key a parameter object).
Anims ==
  {[tag |-> "undefined", keys |-> {}, play |-> FALSE],
   [tag |-> "emptyArray", keys |-> {}, play |-> FALSE]}
  \cup {[tag |-> "object", keys |-> ks, play |-> p] :
          ks \in SUBSET AnimKeys, p \in BOOLEAN}

NoAnims == [tag |-> "undefined", keys |-> {}, play |-> FALSE]

WellFormedAnims == {a \in Anims : a.play => "play" \in a.keys}

\* A definition names its model under at most one of the two keys.
Defs ==
  {d \in [gltf2 : Res, fbx : Res, animations : WellFormedAnims] :
     d.gltf2 = Undefined \/ d.fbx = Undefined}

\* The names of the animation clips of the model a URL serves, in file order.
ModelAnimations(u) ==
  IF u = "a" THEN <<"animation_walk", "idle">> ELSE <<>>

SeqRange(s) == {s[n] : n \in 1..Len(s)}

\* ------------------------------------------------------------------- state

VARIABLES
  inst,            \* the mesh instances, in order of creation
  gltfStateCache,  \* the GLTF2 loader's RefCountCache: url -> entry
  fbxStateCache,   \* the FBX loader's RefCountCache: url -> entry
  loadList,        \* per loader module: url -> the onLoad callbacks waiting
  children,        \* the parent view: the scene objects that are its children
  evictions,       \* per loader, per url: times the cache's cleanup ran
  released,        \* scene objects recursiveDispose has released
  pend,            \* lockstep driving: the event the FBX twin still owes
  asked            \* the last canLoad call: loader, argument, value returned

vars == <<inst, gltfStateCache, fbxStateCache, loadList, children,
          evictions, released, pend, asked>>

Ids == 1..Len(inst)

\* ------------------------------------------------------- Utils/extractURL

\* extractURL: the URL a resource names, Undefined when it names none.
ExtractURL(r) == IF r \in URLs THEN r ELSE Undefined

\* `extractURL(x) || ''`
UrlOf(r) == IF ExtractURL(r) \in {Undefined, ""} THEN "" ELSE ExtractURL(r)

\* ---------------------------------------------------- Utils/RefCountCache

\* An entry with refs = 0 is no entry.
NoEntry == [refs |-> 0, scene |-> 0]
EmptyCache == [u \in UrlKeys |-> NoEntry]

CacheHas(c, u) == c[u].refs > 0
CacheGet(c, u) == c[u].scene
CacheAddReference(c, u) ==
  IF CacheHas(c, u) THEN [c EXCEPT ![u].refs = @ + 1] ELSE c
\* The entry is dropped, and the cleanup callback runs, when the count
\* reaches zero.
CacheEvicts(c, u) == CacheHas(c, u) /\ c[u].refs - 1 <= 0
CacheRemoveReference(c, u) ==
  IF ~CacheHas(c, u) THEN c
  ELSE IF CacheEvicts(c, u) THEN [c EXCEPT ![u] = NoEntry]
  ELSE [c EXCEPT ![u].refs = @ - 1]

\* recursiveDispose(entry.scene): the node and all below it are released.
RecursiveDispose(rel, scene) == rel \cup {scene}

StateCache(k) == IF k = "gltf2" THEN gltfStateCache ELSE fbxStateCache

\* ------------------------------------------------------------ the instance

\* parseAnimationParams(definition).play, as a boolean
ParseAnimationParams(d) ==
  IF d.animations.tag = "undefined" THEN FALSE ELSE d.animations.play

\* The instance as the constructor leaves it before it looks at the cache.
NewInstance(k, d) ==
  [kind |-> k,
   url |-> UrlOf(IF k = "gltf2" THEN d.gltf2 ELSE d.fbx),
   play |-> ParseAnimationParams(d),
   status |-> "loading",
   model |-> 0,
   scene |-> 0,
   mixer |-> FALSE,
   raf |-> FALSE,
   allAnimations |-> {},
   activeAnimations |-> {},
   playing |-> {},
   threw |-> FALSE,
   disposed |-> FALSE,
   fetches |-> 0,
   taken |-> 0,
   removed |-> 0]

Init ==
  /\ inst = <<>>
  /\ gltfStateCache = EmptyCache
  /\ fbxStateCache = EmptyCache
  /\ loadList = [k \in Kinds |-> [u \in UrlKeys |-> <<>>]]
  /\ children = {}
  /\ evictions = [k \in Kinds |-> [u \in UrlKeys |-> 0]]
  /\ released = {}
  /\ pend = <<>>
  /\ asked = <<>>

\* -------------------------------------------------------------- onLoad

\* What the loader hands to onLoad for a url: the scene object made by the
\* fetch that instance i started, and the model's animation clips.
Loaded(i, u) == [scene |-> i, animations |-> ModelAnimations(u)]

\* GLTF2 onLoad assigns to the undeclared name animationAction inside the
\* play loop: a ReferenceError in a strict build, a global in a sloppy one.
\* FBX onLoad hands fbx.animations[0] to mixer.clipAction without looking:
\* for a model without clips the mixer is given undefined.
MayThrow(r, m) ==
  IF r.kind = "gltf2"
  THEN r.play /\ Len(m.animations) > 0
  ELSE Len(m.animations) = 0

\* GLTF2MeshInstance onLoad(gltf); throws: the build is strict.
GLTF2OnLoad(r, gltf, throws) ==
  LET base == [r EXCEPT !.status = "loaded", !.model = gltf.scene,
                        !.scene = gltf.scene, !.mixer = TRUE]
  IN IF r.play /\ Len(gltf.animations) > 0
     THEN IF throws
          THEN [base EXCEPT !.threw = TRUE]
          ELSE [base EXCEPT
                  !.allAnimations = @ \cup SeqRange(gltf.animations),
                  !.playing = @ \cup SeqRange(gltf.animations),
                  !.raf = TRUE]
     ELSE [base EXCEPT !.raf = TRUE]

\* FBXMeshInstance onLoad(fbx); throws: clipAction(undefined) raised.
\* this.scene is not assigned.
FBXOnLoad(r, fbx, throws) ==
  LET base == [r EXCEPT !.status = "loaded", !.model = fbx.scene,
                        !.mixer = TRUE]
  IN IF Len(fbx.animations) = 0 /\ throws
     THEN [base EXCEPT !.threw = TRUE]
     ELSE [base EXCEPT
             !.playing = IF r.play /\ Len(fbx.animations) > 0
                         THEN @ \cup {fbx.animations[1]} ELSE @,
             !.raf = TRUE]

\* onLoad's first statement, counted per instance: the GLTF2 onLoad calls
\* addReference when the cache has the url; the FBX onLoad never does.
TakeReference(r, c) ==
  IF r.kind = "gltf2" /\ CacheHas(c, r.url)
  THEN [r EXCEPT !.taken = @ + 1] ELSE r

OnLoad(r, m, throws) ==
  IF r.kind = "gltf2" THEN GLTF2OnLoad(r, m, throws)
  ELSE FBXOnLoad(r, m, throws)

\* The cache after onLoad: only the GLTF2 onLoad touches it.
OnLoadCache(c, u) == CacheAddReference(c, u)

\* --------------------------------------------------------- createInstance

\* new GLTF2MeshInstance(definition, parent)
CreateGLTF2(d, throws) ==
  LET r == NewInstance("gltf2", d)
      i == Len(inst) + 1
      hit == CacheHas(gltfStateCache, r.url)
      m == [scene |-> CacheGet(gltfStateCache, r.url),
            animations |-> ModelAnimations(r.url)]
      waiting == loadList["gltf2"][r.url] # <<>>
  IN /\ throws => (hit /\ MayThrow(r, m))
     /\ inst' = Append(inst,
           IF hit THEN GLTF2OnLoad(TakeReference(r, gltfStateCache), m, throws)
           ELSE IF waiting THEN [r EXCEPT !.status = "queued"]
           ELSE [r EXCEPT !.fetches = @ + 1])
     /\ gltfStateCache' =
           IF hit THEN OnLoadCache(gltfStateCache, r.url) ELSE gltfStateCache
     /\ loadList' =
           IF ~hit /\ waiting
           THEN [loadList EXCEPT !["gltf2"][r.url] = Append(@, i)]
           ELSE loadList
     /\ UNCHANGED <<fbxStateCache, children, evictions, released>>

\* new FBXMeshInstance(definition, parent): always starts a fetch.
CreateFBX(d) ==
  /\ inst' = Append(inst, [NewInstance("fbx", d) EXCEPT !.fetches = @ + 1])
  /\ UNCHANGED <<gltfStateCache, fbxStateCache, loadList, children,
                 evictions, released>>

CreateInstance(k, d, throws) ==
  IF k = "gltf2" THEN CreateGLTF2(d, throws)
  ELSE ~throws /\ CreateFBX(d)

\* ------------------------------------------------------ loader callbacks

\* A success callback whose onLoad hands the model to the parent at once
\* instead of waiting for the next display refresh.
LoadCompleteAttachesNow(i, throws) ==
  /\ i \in Ids
  /\ inst[i].status = "loading"
  /\ throws => MayThrow(inst[i], Loaded(i, inst[i].url))
  /\ inst' = [inst EXCEPT
                ![i] = [OnLoad(TakeReference(@, gltfStateCache),
                               Loaded(i, @.url), throws) EXCEPT !.raf = FALSE]]
  /\ gltfStateCache' =
        IF inst[i].kind = "gltf2"
        THEN OnLoadCache(gltfStateCache, inst[i].url) ELSE gltfStateCache
  /\ children' = IF throws THEN children ELSE children \cup {i}
  /\ UNCHANGED <<fbxStateCache, loadList, evictions, released>>

\* The loader's success callback of the fetch instance i started.
LoadComplete(i, throws) ==
  /\ i \in Ids
  /\ inst[i].status = "loading"
  /\ throws => MayThrow(inst[i], Loaded(i, inst[i].url))
  /\ inst' = [inst EXCEPT ![i] = OnLoad(TakeReference(@, gltfStateCache),
                                        Loaded(i, @.url), throws)]
  /\ gltfStateCache' =
        IF inst[i].kind = "gltf2"
        THEN OnLoadCache(gltfStateCache, inst[i].url) ELSE gltfStateCache
  /\ UNCHANGED <<fbxStateCache, loadList, children, evictions, released>>

\* An error callback that raises the failure again instead of logging it.
LoadErrorRethrows(i) ==
  /\ i \in Ids
  /\ inst[i].status = "loading"
  /\ inst' = [inst EXCEPT ![i].status = "failed", ![i].threw = TRUE]
  /\ loadList' = [loadList EXCEPT ![inst[i].kind][inst[i].url] = <<>>]
  /\ UNCHANGED <<gltfStateCache, fbxStateCache, children, evictions,
                 released>>

\* The loader's error callback: console.error, delete loadList[this.url].
LoadError(i) ==
  /\ i \in Ids
  /\ inst[i].status = "loading"
  /\ inst' = [inst EXCEPT ![i].status = "failed"]
  /\ loadList' = [loadList EXCEPT ![inst[i].kind][inst[i].url] = <<>>]
  /\ UNCHANGED <<gltfStateCache, fbxStateCache, children, evictions,
                 released>>

\* The requestAnimationFrame callback onLoad scheduled: GLTF2 adds
\* this.scene as it is at the tick, FBX adds the fbx object it closed over.
\* parent.add(undefined) adds no scene.
AttachTick(i) ==
  /\ i \in Ids
  /\ inst[i].raf
  /\ inst' = [inst EXCEPT ![i].raf = FALSE]
  /\ children' =
        IF inst[i].kind = "gltf2"
        THEN (IF inst[i].scene # 0 THEN children \cup {inst[i].scene}
              ELSE children)
        ELSE children \cup {inst[i].model}
  /\ UNCHANGED <<gltfStateCache, fbxStateCache, loadList, evictions,
                 released>>

\* ------------------------------------------------------------------ update

\* A method call on this.mixer: raises when the mixer is still null.
MixerCall(r) == IF r.mixer THEN r ELSE [r EXCEPT !.threw = TRUE]

\* 'animation_' + key
AnimName(key) == "animation_" \o key

\* updateAnimation(definition) on instance record r
UpdateAnimation(r, d) ==
  IF d.animations.tag \in {"undefined", "emptyArray"}
  THEN IF r.mixer
       THEN [MixerCall(r) EXCEPT !.activeAnimations = {}, !.playing = {}]
       ELSE r
  ELSE LET newActiveAnimations == {AnimName(k) : k \in d.animations.keys}
           \* anim.play() for a requested animation that is known and
           \* not recorded as active
           started == {n \in newActiveAnimations :
                         n \in r.allAnimations /\ n \notin r.activeAnimations}
           \* what is left in activeAnimations after the deletes
           leftover == r.activeAnimations \ newActiveAnimations
           stopped == leftover \cap r.allAnimations
       IN [r EXCEPT !.activeAnimations = newActiveAnimations,
                    !.playing = (@ \cup started) \ stopped]

\* The url update() compares with this.url: both classes read definition.gltf2.
NewUrl(r, d) == UrlOf(d.gltf2)

\* update(definition): boolean
UpdateReturn(r, d) == NewUrl(r, d) = r.url

Update(i, d) ==
  /\ i \in Ids
  /\ inst' = [inst EXCEPT ![i] =
                IF UpdateReturn(@, d) THEN UpdateAnimation(@, d) ELSE @]
  /\ UNCHANGED <<gltfStateCache, fbxStateCache, loadList, children,
                 evictions, released>>

\* frame() without its test of this.mixer.
FrameInstUnguarded(r) == MixerCall(r)

\* frame(timeStampMS, deltaTimeMS): if (this.mixer) this.mixer.update(...).
\* The mixer's clock is no part of the state here.
FrameInst(r) == IF r.mixer THEN MixerCall(r) ELSE r

Frame(i) ==
  /\ i \in Ids
  /\ inst' = [inst EXCEPT ![i] = FrameInst(@)]
  /\ UNCHANGED <<gltfStateCache, fbxStateCache, loadList, children,
                 evictions, released>>

\* setLit, setTexture, setWireframe: a console.log under __DEV__, no more.
SetLit(i) ==
  /\ i \in Ids
  /\ UNCHANGED <<inst, gltfStateCache, fbxStateCache, loadList, children,
                 evictions, released>>

SetTexture(i) ==
  /\ i \in Ids
  /\ UNCHANGED <<inst, gltfStateCache, fbxStateCache, loadList, children,
                 evictions, released>>

SetWireframe(i) ==
  /\ i \in Ids
  /\ UNCHANGED <<inst, gltfStateCache, fbxStateCache, loadList, children,
                 evictions, released>>

\* ----------------------------------------------------------------- dispose

\* Whether dispose() finds this.scene set.
HasScene(r) == r.scene # 0

\* dispose(): removeReference, parent.remove(this.scene), delete this.scene;
\* all three only when this.scene is set.
Dispose(i) ==
  LET r == inst[i]
      c == StateCache(r.kind)
      evict == HasScene(r) /\ CacheEvicts(c, r.url)
      c2 == IF HasScene(r) THEN CacheRemoveReference(c, r.url) ELSE c
  IN /\ i \in Ids
     /\ inst' = [inst EXCEPT ![i].scene = 0, ![i].disposed = TRUE,
                             ![i].removed = IF HasScene(r) THEN @ + 1 ELSE @]
     /\ gltfStateCache' = IF r.kind = "gltf2" THEN c2 ELSE gltfStateCache
     /\ fbxStateCache' = IF r.kind = "fbx" THEN c2 ELSE fbxStateCache
     /\ children' = IF HasScene(r) THEN children \ {r.scene} ELSE children
     /\ evictions' =
           IF evict THEN [evictions EXCEPT ![r.kind][r.url] = @ + 1]
           ELSE evictions
     /\ released' =
           IF evict THEN RecursiveDispose(released, CacheGet(c, r.url))
           ELSE released
     /\ UNCHANGED loadList

\* ---------------------------------------------------------- specifications

\* What a caller can hand to canLoad: null, undefined or a definition
\* object.  The field def is read only under the tag "object".
Object(d) == [tag |-> "object", def |-> d]

Arguments ==
  {[tag |-> t,
    def |-> [gltf2 |-> Undefined, fbx |-> Undefined, animations |-> NoAnims]] :
     t \in {"null", "undefined"}}
  \cup {Object(d) : d \in Defs}

\* definition.hasOwnProperty(key) for the loader's key.
HasOwnProperty(d, k) == (IF k = "gltf2" THEN d.gltf2 ELSE d.fbx) # Undefined

\* canLoad(definition): `definition && definition.hasOwnProperty(key)`.
\* The value is the JavaScript value returned, written as a string: &&
\* gives its left operand when that operand is falsy, and the boolean
\* hasOwnProperty returned otherwise.
CanLoad(k, a) ==
  IF a.tag # "object" THEN a.tag
  ELSE IF HasOwnProperty(a.def, k) THEN "true" ELSE "false"

\* How a caller's `if (loader.canLoad(definition))` reads the value.
Truthy(v) == v = "true"

\* A caller asks loader k whether it can load a.
CallCanLoad(k, a) ==
  /\ asked' = <<[loader |-> k, definition |-> a, returned |-> CanLoad(k, a)]>>
  /\ UNCHANGED <<inst, gltfStateCache, fbxStateCache, loadList, children,
                 evictions, released, pend>>

\* Definitions that carry no animations.
PlainDefs == {d \in Defs : d.animations.tag = "undefined"}

\* The instance lifecycle: several instances of both loaders, created from
\* definitions the loader accepts.
Next ==
  \/ /\ Len(inst) < MaxInst
     /\ \E k \in Kinds, d \in PlainDefs, throws \in BOOLEAN :
          Truthy(CanLoad(k, Object(d))) /\ CreateInstance(k, d, throws)
     /\ UNCHANGED <<pend, asked>>
  \/ \E i \in Ids, throws \in BOOLEAN : LoadComplete(i, throws) /\ UNCHANGED <<pend, asked>>
  \/ \E i \in Ids : LoadError(i) /\ UNCHANGED <<pend, asked>>
  \/ \E i \in Ids : AttachTick(i) /\ UNCHANGED <<pend, asked>>
  \/ \E i \in Ids, d \in PlainDefs : Update(i, d) /\ UNCHANGED <<pend, asked>>
  \/ \E i \in Ids : Frame(i) /\ UNCHANGED <<pend, asked>>
  \/ \E i \in Ids : SetLit(i) /\ UNCHANGED <<pend, asked>>
  \/ \E i \in Ids : SetTexture(i) /\ UNCHANGED <<pend, asked>>
  \/ \E i \in Ids : SetWireframe(i) /\ UNCHANGED <<pend, asked>>
  \/ \E i \in Ids : Dispose(i) /\ UNCHANGED <<pend, asked>>

Spec == Init /\ [][Next]_vars

\* Animations: every definition, fewer instances.
NextAnim ==
  \/ /\ Len(inst) < MaxAnimInst
     /\ \E k \in Kinds, d \in Defs, throws \in BOOLEAN :
          Truthy(CanLoad(k, Object(d))) /\ CreateInstance(k, d, throws)
     /\ UNCHANGED <<pend, asked>>
  \/ \E i \in Ids, throws \in BOOLEAN : LoadComplete(i, throws) /\ UNCHANGED <<pend, asked>>
  \/ \E i \in Ids : LoadError(i) /\ UNCHANGED <<pend, asked>>
  \/ \E i \in Ids : AttachTick(i) /\ UNCHANGED <<pend, asked>>
  \/ \E i \in Ids, d \in Defs : Update(i, d) /\ UNCHANGED <<pend, asked>>
  \/ \E i \in Ids : Frame(i) /\ UNCHANGED <<pend, asked>>
  \/ \E i \in Ids : SetLit(i) /\ UNCHANGED <<pend, asked>>
  \/ \E i \in Ids : SetTexture(i) /\ UNCHANGED <<pend, asked>>
  \/ \E i \in Ids : SetWireframe(i) /\ UNCHANGED <<pend, asked>>
  \/ \E i \in Ids : Dispose(i) /\ UNCHANGED <<pend, asked>>

SpecAnim == Init /\ [][NextAnim]_vars

\* The two loaders side by side: instance 1 is a GLTF2MeshInstance, instance
\* 2 an FBXMeshInstance, and every event the first takes the second takes
\* next, its definition naming the same url under the key fbx.
PairKind(i) == IF i = 1 THEN "gltf2" ELSE "fbx"

PairDef(i, e) ==
  [gltf2 |-> IF i = 1 THEN e.url ELSE Undefined,
   fbx |-> IF i = 1 THEN Undefined ELSE e.url,
   animations |-> e.animations]

Events ==
  [op : {"create", "load", "error", "tick", "update", "dispose"},
   url : Res, animations : WellFormedAnims]

\* A display refresh runs the attach callback of an instance that has one.
Tick(i) ==
  IF inst[i].raf THEN AttachTick(i)
  ELSE UNCHANGED <<inst, gltfStateCache, fbxStateCache, loadList, children,
                   evictions, released>>

PairStep(i, e) ==
  \/ /\ e.op = "create"
     /\ Len(inst) = i - 1
     /\ e.url \in URLs
     /\ \E throws \in BOOLEAN :
          CreateInstance(PairKind(i), PairDef(i, e), throws)
  \/ /\ e.op = "load"
     /\ e.url = Undefined /\ e.animations = NoAnims
     /\ \E throws \in BOOLEAN : LoadComplete(i, throws)
  \/ /\ e.op = "error"
     /\ e.url = Undefined /\ e.animations = NoAnims
     /\ LoadError(i)
  \/ /\ e.op = "tick"
     /\ e.url = Undefined /\ e.animations = NoAnims
     /\ Len(inst) = 2
     /\ Tick(i)
  \/ /\ e.op = "update"
     /\ Update(i, PairDef(i, e))
  \/ /\ e.op = "dispose"
     /\ e.url = Undefined /\ e.animations = NoAnims
     /\ Dispose(i)

NextPair ==
  \/ /\ pend = <<>>
     /\ \E e \in Events : PairStep(1, e) /\ pend' = <<e>>
     /\ UNCHANGED asked
  \/ /\ pend # <<>>
     /\ PairStep(2, pend[1])
     /\ pend' = <<>>
     /\ UNCHANGED asked

SpecPair == Init /\ [][NextPair]_vars

\* The animation specification with the display refresh: a callback handed
\* to requestAnimationFrame is run at the next refresh.
SpecAnimFair ==
  /\ Init
  /\ [][NextAnim]_vars
  /\ \A i \in 1..MaxAnimInst :
       WF_vars(AttachTick(i) /\ UNCHANGED <<pend, asked>>)

\* The loader interface: a caller asks canLoad about any value, and creates
\* an instance from the definition when the answer is truthy.
NextCanLoad ==
  \/ \E k \in Kinds, a \in Arguments : CallCanLoad(k, a)
  \/ /\ asked # <<>>
     /\ Truthy(asked[1].returned)
     /\ Len(inst) < MaxAnimInst
     /\ \E throws \in BOOLEAN :
          CreateInstance(asked[1].loader, asked[1].definition.def, throws)
     /\ UNCHANGED <<pend, asked>>

SpecCanLoad == Init /\ [][NextCanLoad]_vars

\* ------------------------------------------------------- what claims read

\* The model of instance i is a child of the parent view.
Attached(i) == inst[i].model # 0 /\ inst[i].model \in children

\* The instances of loader k for url u whose load has completed and on
\* which dispose() has not been called.
LoadedLive(k, u) ==
  {i \in Ids : /\ inst[i].kind = k
               /\ inst[i].url = u
               /\ inst[i].status = "loaded"
               /\ ~inst[i].disposed}

\* The fetches of loader k for url u that are outstanding.
Outstanding(k, u) ==
  {i \in Ids : /\ inst[i].kind = k
               /\ inst[i].url = u
               /\ inst[i].status = "loading"}

RefCount(k, u) == StateCache(k)[u].refs

\* The url a definition gives under the loader's own key.
OwnUrl(k, d) == UrlOf(IF k = "gltf2" THEN d.gltf2 ELSE d.fbx)

\* The animations of the instance's model that definition d asks for.
Requested(r, d) ==
  {AnimName(k) : k \in d.animations.keys}
    \cap SeqRange(ModelAnimations(r.url))

\* ------------------------------------------------------------------ claims

\* C1: for every loader and url, in every reachable state, the cache's
\* reference count of the url is the number of instances of that url whose
\* load has completed and which have not been disposed.
C1_RefCountIsLiveInstances ==
  \A k \in Kinds, u \in URLs : RefCount(k, u) = Cardinality(LoadedLive(k, u))

\* C2: for every loader and url the cache's eviction callback runs once in
\* the step that disposes the last loaded, undisposed instance of the url,
\* and in no other step.
C2_EvictionOnLastDispose ==
  [][\A k \in Kinds, u \in URLs :
       evictions'[k][u] - evictions[k][u] =
         (IF LoadedLive(k, u) # {} /\ LoadedLive(k, u)' = {} THEN 1 ELSE 0)]_vars

\* C3: after update(definition) with the instance's own url on an instance
\* whose model has loaded, the animations playing are exactly the requested
\* ones.
C3_UpdateLeavesRequestedPlaying ==
  [][\A i \in Ids : \A d \in Defs :
       (/\ inst[i].status = "loaded"
        /\ OwnUrl(inst[i].kind, d) = inst[i].url
        /\ Update(i, d))
       => inst'[i].playing = Requested(inst[i], d)]_vars

\* C4: at most one fetch per loader and url is outstanding at any time.
C4_OneFetchPerUrl ==
  \A k \in Kinds, u \in URLs : Cardinality(Outstanding(k, u)) <= 1

\* C5: dispose() on an instance whose model is attached to the parent
\* leaves the model detached, for both loaders.
C5_DisposeDetaches ==
  [][\A i \in Ids : (Attached(i) /\ Dispose(i)) => ~Attached(i)']_vars

\* C6: once dispose() has been called on an instance, its model is not a
\* child of the parent in any later state.
C6_NoAttachAfterDispose ==
  \A i \in Ids : inst[i].disposed => ~Attached(i)

\* C7: update(definition) returns true exactly when the url the definition
\* gives under the loader's own key is the url the instance was created with.
C7_UpdateReturnsUrlMatch ==
  \A i \in Ids : \A d \in Defs :
    UpdateReturn(inst[i], d) <=> (OwnUrl(inst[i].kind, d) = inst[i].url)

\* What a failed load leaves of instance i.
FailedInert(i) ==
  /\ inst[i].status = "failed"
  /\ loadList[inst[i].kind][inst[i].url] = <<>>
  /\ inst[i].fetches = 1
  /\ ~inst[i].mixer
  /\ ~inst[i].raf
  /\ ~Attached(i)
  /\ ~inst[i].threw

\* C8: after a load failure the url has no pending-load record, the
\* instance starts no further fetch, its mixer stays unset, its model is
\* never attached, and no call on it (update, frame, the set* calls,
\* dispose) raises: a failed instance stays failed and inert at every step.
C8_FailedStaysInert ==
  [][\A i \in Ids :
       /\ inst[i].status = "failed" => inst'[i].status = "failed"
       /\ inst'[i].status = "failed" => FailedInert(i)']_vars

\* A failed instance on which update has recorded a request and dispose
\* has been called.
C8_Witness ==
  \E i \in Ids :
    /\ inst[i].status = "failed"
    /\ inst[i].disposed
    /\ inst[i].activeAnimations # {}

\* What a caller can see of instance i: whether its model is in the parent
\* view, whether a call or callback of it raised, and what update returns
\* for each definition.
Observable(i) ==
  [attached |-> Attached(i),
   raised |-> inst[i].threw,
   update |-> [d \in Defs |-> UpdateReturn(inst[i], d)]]

\* Instances i and j were created by the same loader from the same
\* definition; the load of i has failed, that of j is in flight.
FailedAndPending(i, j) ==
  /\ inst[i].kind = inst[j].kind
  /\ inst[i].url = inst[j].url
  /\ inst[i].play = inst[j].play
  /\ inst[i].status = "failed"
  /\ inst[j].status = "loading"

\* C9: a failed load cannot be told from a pending one: whatever calls
\* were made on either, an instance whose load failed and one of the same
\* definition whose load is in flight show the caller the same.
C9_FailedLooksPending ==
  \A i \in Ids, j \in Ids :
    FailedAndPending(i, j) => Observable(i) = Observable(j)

\* Such a pair, after dispose() was called on both.
C9_Witness ==
  \E i \in Ids, j \in Ids :
    FailedAndPending(i, j) /\ inst[i].disposed /\ inst[j].disposed

\* C10: the two loaders, driven by the same events, agree at every step on
\* what update returns, on the animations playing and on whether the model
\* is attached.
C10_LoadersInterchangeable ==
  /\ (Len(inst) = 2 /\ pend = <<>>) =>
       /\ Attached(1) = Attached(2)
       /\ inst[1].playing = inst[2].playing
  /\ (Len(inst) = 2 /\ pend # <<>>) =>
       (pend[1].op = "update" =>
          UpdateReturn(inst[1], PairDef(1, pend[1]))
            = UpdateReturn(inst[2], PairDef(2, pend[1])))

\* C11: the model becomes a child of the parent only in a display-refresh
\* step of an instance whose load-complete callback has run, never in
\* createInstance or in the load-complete callback; and whenever the model
\* is a child of the parent the instance's mixer is set.
C11_AttachOnlyOnTickAfterLoad ==
  [][\A i \in 1..Len(inst') :
       /\ Attached(i)' => inst'[i].mixer
       /\ ((i \notin Ids \/ ~Attached(i)) /\ Attached(i)') =>
            /\ i \in Ids
            /\ inst[i].status = "loaded"
            /\ inst[i].raf
            /\ ~inst'[i].raf]_vars

\* An instance whose model a display-refresh step has attached.
C11_Witness ==
  \E i \in Ids : Attached(i) /\ inst[i].mixer /\ ~inst[i].raf

\* C12: canLoad(definition) returns the boolean true when the definition
\* has an own property for the loader's format, and the boolean false in
\* every other case, null and undefined definitions included.
C12_CanLoadReturnsBoolean ==
  asked # <<>> =>
    asked[1].returned =
      IF /\ asked[1].definition.tag = "object"
         /\ HasOwnProperty(asked[1].definition.def, asked[1].loader)
      THEN "true" ELSE "false"

\* C13: given that scheduled display-refresh callbacks are run, every
\* instance whose load completed is eventually attached to the parent
\* unless it is disposed, whatever the animation parameters and whether or
\* not the model has animations.
C13_LoadedEventuallyAttached ==
  \A i \in 1..MaxAnimInst :
    [](i \in Ids /\ inst[i].status = "loaded"
         => <>(i \in Ids /\ (Attached(i) \/ inst[i].disposed)))

\* C14: playback at load follows the animation parameters: when the
\* load-complete callback has run, no animation is playing if play was not
\* requested, and every animation of the model is playing if it was.
C14_PlaybackAtLoadFollowsParams ==
  [][\A i \in Ids :
       (inst[i].status # "loaded" /\ inst'[i].status = "loaded") =>
         inst'[i].playing =
           IF inst[i].play THEN SeqRange(ModelAnimations(inst[i].url))
           ELSE {}]_vars

\* C15: update(definition) with the instance's own url and a definition
\* without animations leaves activeAnimations empty and no animation
\* playing, before or after the load and whatever earlier updates recorded:
\* in every reachable state that is what the call yields.
C15_UpdateWithoutAnimationsClears ==
  \A i \in Ids : \A d \in Defs :
    (/\ d.animations.tag \in {"undefined", "emptyArray"}
     /\ OwnUrl(inst[i].kind, d) = inst[i].url)
    => LET after == IF UpdateReturn(inst[i], d)
                    THEN UpdateAnimation(inst[i], d) ELSE inst[i]
       IN after.activeAnimations = {} /\ after.playing = {}

\* C16: a name is recorded in activeAnimations exactly when the model has
\* an animation action of that name and that action is playing.
C16_ActiveIsPlaying ==
  \A i \in Ids :
    inst[i].activeAnimations =
      inst[i].playing \cap SeqRange(ModelAnimations(inst[i].url))

\* C17: an instance calls removeReference on its url only after it called
\* addReference (or created the entry): its removeReference calls never
\* outnumber the references it took, and no count falls below zero.
C17_ReleaseOnlyWhatWasTaken ==
  /\ \A i \in Ids : inst[i].removed <= inst[i].taken
  /\ \A k \in Kinds, u \in URLs : RefCount(k, u) >= 0

\* C18: dispose() is idempotent: a second or later call on the same
\* instance changes nothing, so the instance calls removeReference and the
\* parent's remove at most once.
C18_DisposeIdempotent ==
  /\ [][\A i \in Ids :
          (inst[i].disposed /\ Dispose(i)) => UNCHANGED vars]_vars
  /\ [](\A i \in Ids : inst[i].removed <= 1)

====
